---- MODULE Spec2Model ----
(***************************************************************************)
(* Model of bot_onboarding.py: the name/email conversation, the users      *)
(* table and the menu handlers, as registered on the application in main.  *)
(* A text is a sequence of one-character strings, so that strip, the email *)
(* regex and the command/label filters are computed character by           *)
(* character.                                                              *)
(***************************************************************************)
EXTENDS Integers, Sequences, FiniteSets, TLC

VARIABLES conversations, user_data, users, now, sent, last, flow, inbox, tasks

vars == <<conversations, user_data, users, now, sent, last, flow, inbox, tasks>>

\* ------------------------------------------------------------------ bounds
\* number of distinct timestamps datetime.utcnow() hands out, one per save
MaxClock == 2

\* number of handler coroutines suspended at an await at the same time
MaxInFlight == 2

\* number of updates received from Telegram and not yet handled
MaxInbox == 2

\* ------------------------------------------------------- program constants
NAME == 0
EMAIL == 1
\* ConversationHandler.END; a conversation key that is absent reads as END
END == -1

\* ------------------------------------------------------------------- users
\* effective_user of an update: id, username (optional) and first_name
NoUsername == <<>>
UserIds == {1, 2}
Username(u) == IF u = 1 THEN <<"j", "o">> ELSE NoUsername
FirstNameOf(u) == IF u = 1 THEN <<"J", "o">> ELSE <<>>

\* ------------------------------------------------------------------- texts
Whitespace == {" ", "\n", "\t"}

StartCmd == <<"/", "s", "t", "a", "r", "t">>
CancelCmd == <<"/", "c", "a", "n", "c", "e", "l">>
\* a command no handler names; its text happens to match the email regex
OtherCmd == <<"/", "h", "@", "b", ".", "c">>
\* the command words of CommandHandler("start", ...) and ("cancel", ...)
StartWord == <<"s", "t", "a", "r", "t">>
CancelWord == <<"c", "a", "n", "c", "e", "l">>
PaddedName == <<" ", "J", "o", " ", "D", " ">>
PaddedEmail == <<" ", "a", "@", "b", ".", "c", "\n">>
OtherEmail == <<"j", "@", "x", ".", "y">>
BadEmail == <<"a", " ", "@", "b", ".", "c">>

\* keyboard labels; the emoji of the source labels and patterns are written "#"
NextStepsLabel == <<"N", "e", "x", "t", " ", "S", "t", "e", "p", "s">>
WhyFreeLabel == <<"W", "h", "y", " ", "i", "s", " ", "i", "t", " ", "f", "r", "e", "e", "?">>
YesLabel == <<"Y", "e", "s", ",", " ", "I", " ", "d", "o", " ", "#">>
NoLabel == <<"N", "o", ",", " ", "I", "'", "m", " ", "n", "e", "w", " ", "t", "o", " ", "t", "h", "i", "s">>
ReadyLabel == <<"I", "'", "m", " ", "r", "e", "a", "d", "y", "!">>
DoneLabel == <<"D", "O", "N", "E", " ", "#">>

\* the patterns of the filters.Regex triggers, as written in main
NextStepsRegex == <<"^", "N", "e", "x", "t", " ", "S", "t", "e", "p", "s", "$">>
WhyFreeRegex_unescaped == <<"^", "W", "h", "y", " ", "i", "s", " ", "i", "t", " ", "f", "r", "e", "e", "?", "$">>
WhyFreeRegex == <<"^", "W", "h", "y", " ", "i", "s", " ", "i", "t", " ", "f", "r", "e", "e", "\\", "?", "$">>
YesRegex == <<"^", "Y", "e", "s", ",", " ", "I", " ", "d", "o", " ", "#", "$">>
NoRegex == <<"^", "N", "o", ",", " ", "I", "'", "m", " ", "n", "e", "w", " ", "t", "o", " ", "t", "h", "i", "s", "$">>
ReadyRegex == <<"^", "I", "'", "m", " ", "r", "e", "a", "d", "y", "!", "$">>
DoneRegex == <<"^", "D", "O", "N", "E", " ", "#", "$">>

Labels == {NextStepsLabel, WhyFreeLabel, YesLabel, NoLabel, ReadyLabel, DoneLabel}

\* the message texts the two users send during onboarding
Texts == {StartCmd, CancelCmd, OtherCmd, PaddedName, PaddedEmail, BadEmail}

\* the message texts of the user who presses the buttons
MenuUsers == {1}
MenuTexts == Texts \cup {OtherEmail} \cup Labels

\* ------------------------------------------------------------ str helpers
RECURSIVE lstrip(_)
lstrip(s) == IF s # <<>> /\ Head(s) \in Whitespace THEN lstrip(Tail(s)) ELSE s

RECURSIVE rstrip(_)
rstrip(s) == IF s # <<>> /\ s[Len(s)] \in Whitespace THEN rstrip(SubSeq(s, 1, Len(s) - 1)) ELSE s

\* str.strip()
strip(s) == rstrip(lstrip(s))

\* the characters of the class [^@\s]
IsAtomChar(c) == c # "@" /\ c \notin Whitespace

AllAtom(s, lo, hi) == lo <= hi /\ \A k \in lo..hi : IsAtomChar(s[k])

\* [^@\s]+@[^@\s]+\.[^@\s]+ matched against the whole of s
FullMatch(s) ==
    \E i \in 1..Len(s) : \E j \in 1..Len(s) :
        /\ i < j
        /\ s[i] = "@"
        /\ s[j] = "."
        /\ AllAtom(s, 1, i - 1)
        /\ AllAtom(s, i + 1, j - 1)
        /\ AllAtom(s, j + 1, Len(s))

\* EMAIL_REGEX.match: ^ at the start, $ at the end or before a final newline
EMAIL_REGEX(s) ==
    \/ FullMatch(s)
    \/ s # <<>> /\ s[Len(s)] = "\n" /\ FullMatch(SubSeq(s, 1, Len(s) - 1))

is_valid_email(email) == EMAIL_REGEX(strip(email))

\* str.split()[0] of a non-empty stripped string
RECURSIVE FirstWord(_)
FirstWord(s) == IF s = <<>> \/ Head(s) \in Whitespace THEN <<>> ELSE <<Head(s)>> \o FirstWord(Tail(s))

\* ---------------------------------------------------------------- filters
\* filters.COMMAND: the text opens with a bot_command entity
IsCommand(t) == Len(t) >= 2 /\ t[1] = "/" /\ t[2] \notin Whitespace

\* the command word of the entity, up to a space or the @botname suffix
RECURSIVE CommandWord(_)
CommandWord(s) == IF s = <<>> \/ Head(s) \in Whitespace \/ Head(s) = "@" THEN <<>> ELSE <<Head(s)>> \o CommandWord(Tail(s))

\* CommandHandler(name, ...).check_update
CommandHandler(name, t) == IsCommand(t) /\ CommandWord(Tail(t)) = name

\* filters.TEXT & ~filters.COMMAND
TextNotCommand(t) == t # <<>> /\ ~IsCommand(t)

\* the atoms of a pattern body: a character, written plain or escaped with
\* a backslash, optional when a "?" follows it
RECURSIVE Atoms(_)
Atoms(r) ==
    IF r = <<>> THEN <<>>
    ELSE LET n == IF Head(r) = "\\" THEN 2 ELSE 1
             opt == Len(r) > n /\ r[n + 1] = "?"
             used == IF opt THEN n + 1 ELSE n
         IN <<[ch |-> r[n], opt |-> opt]>> \o Atoms(SubSeq(r, used + 1, Len(r)))

\* the atoms matched against all of s; $ also matches before a final newline
RECURSIVE MatchAtoms(_, _)
MatchAtoms(p, s) ==
    IF p = <<>> THEN s = <<>> \/ s = <<"\n">>
    ELSE \/ s # <<>> /\ Head(s) = Head(p).ch /\ MatchAtoms(Tail(p), Tail(s))
         \/ Head(p).opt /\ MatchAtoms(Tail(p), s)

\* re.compile of a pattern written "^body$"
compile(pattern) == Atoms(SubSeq(pattern, 2, Len(pattern) - 1))

\* the filters main registers, compiled once
NextStepsFilter == compile(NextStepsRegex)
WhyFreeFilter == compile(WhyFreeRegex)
YesFilter == compile(YesRegex)
NoFilter == compile(NoRegex)
ReadyFilter == compile(ReadyRegex)
DoneFilter == compile(DoneRegex)

\* filters.Regex(pattern): re.search of the compiled pattern in the text
Regex(filter, t) == MatchAtoms(filter, t)

\* --------------------------------------------------------- outbound replies
NoMarkup == [kind |-> "none", keyboard |-> <<>>]
ReplyKeyboardRemove == [kind |-> "remove", keyboard |-> <<>>]
ReplyKeyboardMarkup(keyboard) == [kind |-> "keyboard", keyboard |-> keyboard]

\* one update.message.reply_text call: which fixed text, the value
\* interpolated into it, and the reply_markup
reply_text(text, arg, markup) == [text |-> text, arg |-> arg, reply_markup |-> markup]

\* ------------------------------------------------------------- user_data
EmptyDict == [k \in {} |-> <<>>]
DictGet(d, k, default) == IF k \in DOMAIN d THEN d[k] ELSE default
DictSet(d, k, v) == [x \in DOMAIN d \cup {k} |-> IF x = k THEN v ELSE d[x]]

\* --------------------------------------------------------------- dispatch
NoHandler == "none"

conv_handler_skips_labels(u, t) ==
    IF conversations[u] = END
    THEN IF CommandHandler(StartWord, t) THEN "start" ELSE NoHandler
    ELSE IF conversations[u] = NAME /\ TextNotCommand(t) /\ t \notin Labels THEN "name_handler"
    ELSE IF conversations[u] = EMAIL /\ TextNotCommand(t) /\ t \notin Labels THEN "email_handler"
    ELSE IF CommandHandler(CancelWord, t) THEN "cancel"
    ELSE NoHandler

\* ConversationHandler(entry_points, states, fallbacks).check_update with
\* the default allow_reentry=False: entry points are tried only when the
\* user has no conversation; otherwise the state's handlers, then fallbacks
conv_handler(u, t) ==
    IF conversations[u] = END
    THEN IF CommandHandler(StartWord, t) THEN "start" ELSE NoHandler
    ELSE IF conversations[u] = NAME /\ TextNotCommand(t) THEN "name_handler"
    ELSE IF conversations[u] = EMAIL /\ TextNotCommand(t) THEN "email_handler"
    ELSE IF CommandHandler(CancelWord, t) THEN "cancel"
    ELSE NoHandler

add_handler_buttons_first(u, t) ==
    IF Regex(NextStepsFilter, t) THEN "next_steps"
    ELSE IF Regex(WhyFreeFilter, t) THEN "why_is_it_free"
    ELSE IF Regex(YesFilter, t) THEN "has_vantage"
    ELSE IF Regex(NoFilter, t) THEN "new_to_vantage"
    ELSE IF Regex(ReadyFilter, t) THEN "im_ready"
    ELSE IF Regex(DoneFilter, t) THEN "vantage_done"
    ELSE IF conv_handler(u, t) # NoHandler THEN conv_handler(u, t)
    ELSE IF IsCommand(t) THEN "unknown"
    ELSE NoHandler

\* app.add_handler order in group 0: the first handler whose check_update
\* accepts the update handles it, the others are not tried
add_handler(u, t) ==
    IF conv_handler(u, t) # NoHandler THEN conv_handler(u, t)
    ELSE IF Regex(NextStepsFilter, t) THEN "next_steps"
    ELSE IF Regex(WhyFreeFilter, t) THEN "why_is_it_free"
    ELSE IF Regex(YesFilter, t) THEN "has_vantage"
    ELSE IF Regex(NoFilter, t) THEN "new_to_vantage"
    ELSE IF Regex(ReadyFilter, t) THEN "im_ready"
    ELSE IF Regex(DoneFilter, t) THEN "vantage_done"
    ELSE IF IsCommand(t) THEN "unknown"
    ELSE NoHandler

\* the update just processed: sender, text, the handler that took it,
\* whether users.db could be written, whether the handler raised
Update(u, t, h, raised, ok) == [user |-> u, text |-> t, handler |-> h, raised |-> raised, ok |-> ok]

\* progress of user u through "start from no conversation, a non-command
\* text, a non-command valid email with the store available": the texts of
\* the longest run of u's latest messages that is a prefix of that pattern
FlowStep(f, pre, t, ok) ==
    IF Len(f) = 1 /\ TextNotCommand(t) THEN f \o <<t>>
    ELSE IF Len(f) = 2 /\ TextNotCommand(t) /\ is_valid_email(t) /\ ok THEN f \o <<t>>
    ELSE IF pre = END /\ CommandHandler(StartWord, t) THEN <<t>>
    ELSE <<>>

Observe(u, t, h, raised, ok) ==
    /\ last' = Update(u, t, h, raised, ok)
    /\ flow' = [flow EXCEPT ![u] = FlowStep(flow[u], conversations[u], t, ok)]

\* ------------------------------------------------------------------ store
init_db_recreates(table) == {}

\* CREATE TABLE IF NOT EXISTS users: an existing table keeps its rows
init_db(table) == table

\* INSERT OR REPLACE INTO users: user_id is the PRIMARY KEY, so the row of
\* the same user_id is deleted before the new row is inserted
save_user_insert(user_id, username, full_name, email) ==
    /\ now < MaxClock
    /\ now' = now + 1
    /\ users' = users \cup
                {[user_id |-> user_id, tg_username |-> username, full_name |-> full_name,
                  email |-> email, created_at |-> now + 1]}

save_user_replaces_all(user_id, username, full_name, email) ==
    /\ now < MaxClock
    /\ now' = now + 1
    /\ users' = {[user_id |-> user_id, tg_username |-> username, full_name |-> full_name,
                  email |-> email, created_at |-> now + 1]}

save_user(user_id, username, full_name, email) ==
    /\ now < MaxClock
    /\ now' = now + 1
    /\ users' = {r \in users : r.user_id # user_id} \cup
                {[user_id |-> user_id, tg_username |-> username, full_name |-> full_name,
                  email |-> email, created_at |-> now + 1]}

\* --------------------------------------------------- conversation handlers
start(u, t) ==
    /\ add_handler(u, t) = "start"
    /\ sent' = <<reply_text("welcome", <<>>, NoMarkup)>>
    /\ conversations' = [conversations EXCEPT ![u] = NAME]
    /\ Observe(u, t, "start", FALSE, TRUE)
    /\ UNCHANGED <<user_data, users, now>>

name_handler_unstripped(u, t) ==
    /\ add_handler(u, t) = "name_handler"
    /\ user_data' = [user_data EXCEPT ![u] = DictSet(@, "full_name", t)]
    /\ sent' = <<reply_text("ask_email", t, NoMarkup)>>
    /\ conversations' = [conversations EXCEPT ![u] = EMAIL]
    /\ Observe(u, t, "name_handler", FALSE, TRUE)
    /\ UNCHANGED <<users, now>>

name_handler_saves(u, t) ==
    /\ add_handler(u, t) = "name_handler"
    /\ user_data' = [user_data EXCEPT ![u] = DictSet(@, "full_name", strip(t))]
    /\ sent' = <<reply_text("ask_email", strip(t), NoMarkup)>>
    /\ conversations' = [conversations EXCEPT ![u] = EMAIL]
    /\ Observe(u, t, "name_handler", FALSE, TRUE)
    /\ save_user(u, Username(u), strip(t), <<>>)

name_handler(u, t) ==
    /\ add_handler(u, t) = "name_handler"
    /\ LET full_name == strip(t) IN
        /\ user_data' = [user_data EXCEPT ![u] = DictSet(@, "full_name", full_name)]
        /\ sent' = <<reply_text("ask_email", full_name, NoMarkup)>>
    /\ conversations' = [conversations EXCEPT ![u] = EMAIL]
    /\ Observe(u, t, "name_handler", FALSE, TRUE)
    /\ UNCHANGED <<users, now>>

email_rejected_forgets(u, t, ok) ==
    /\ sent' = <<reply_text("invalid_email", <<>>, NoMarkup)>>
    /\ conversations' = [conversations EXCEPT ![u] = EMAIL]
    /\ user_data' = [user_data EXCEPT ![u] = EmptyDict]
    /\ Observe(u, t, "email_handler", FALSE, ok)
    /\ UNCHANGED <<users, now>>

email_rejected_ends(u, t, ok) ==
    /\ sent' = <<reply_text("invalid_email", <<>>, NoMarkup)>>
    /\ conversations' = [conversations EXCEPT ![u] = END]
    /\ Observe(u, t, "email_handler", FALSE, ok)
    /\ UNCHANGED <<user_data, users, now>>

\* lines 112-114: the text is not a valid email
email_rejected(u, t, ok) ==
    /\ sent' = <<reply_text("invalid_email", <<>>, NoMarkup)>>
    /\ conversations' = [conversations EXCEPT ![u] = EMAIL]
    /\ Observe(u, t, "email_handler", FALSE, ok)
    /\ UNCHANGED <<user_data, users, now>>

email_save_raised_cleared(u, t, ok) ==
    /\ sent' = <<>>
    /\ user_data' = [user_data EXCEPT ![u] = EmptyDict]
    /\ Observe(u, t, "email_handler", TRUE, ok)
    /\ UNCHANGED <<conversations, users, now>>

\* line 119 when sqlite3 raises in save_user: the handler ends there, no
\* state is returned to the ConversationHandler, which keeps the state
email_save_raised(u, t, ok) ==
    /\ sent' = <<>>
    /\ Observe(u, t, "email_handler", TRUE, ok)
    /\ UNCHANGED <<conversations, user_data, users, now>>

\* lines 125-155: the pitch and the first menu
email_accepted_replies(first_name) ==
    <<reply_text("thanks", first_name, NoMarkup),
      reply_text("rundown", <<>>, NoMarkup),
      reply_text("best_part", <<>>, NoMarkup),
      reply_text("choose_option", <<>>, ReplyKeyboardMarkup(<<NextStepsLabel, WhyFreeLabel>>))>>

\* lines 116-157: save, clear user_data, pitch and first menu
email_accepted(u, t, ok) ==
    LET email == strip(t)
        full_name == DictGet(user_data[u], "full_name", <<>>)
        username == Username(u)
        first_name == IF full_name # <<>> THEN FirstWord(full_name) ELSE <<>>
    IN /\ save_user(u, username, full_name, email)
       /\ user_data' = [user_data EXCEPT ![u] = EmptyDict]
       /\ sent' = email_accepted_replies(first_name)
       /\ conversations' = [conversations EXCEPT ![u] = END]
       /\ Observe(u, t, "email_handler", FALSE, ok)

email_handler_unchecked(u, t, ok) ==
    /\ add_handler(u, t) = "email_handler"
    /\ IF ~ok THEN email_save_raised(u, t, ok) ELSE email_accepted(u, t, ok)

\* ok: whether sqlite3 can open and write users.db for this update
email_handler(u, t, ok) ==
    /\ add_handler(u, t) = "email_handler"
    /\ IF ~is_valid_email(strip(t)) THEN email_rejected(u, t, ok)
       ELSE IF ~ok THEN email_save_raised(u, t, ok)
       ELSE email_accepted(u, t, ok)

cancel_saves(u, t) ==
    /\ add_handler(u, t) = "cancel"
    /\ sent' = <<reply_text("canceled", <<>>, ReplyKeyboardRemove)>>
    /\ conversations' = [conversations EXCEPT ![u] = END]
    /\ Observe(u, t, "cancel", FALSE, TRUE)
    /\ save_user(u, Username(u), DictGet(user_data[u], "full_name", <<>>), <<>>)
    /\ UNCHANGED user_data

cancel(u, t) ==
    /\ add_handler(u, t) = "cancel"
    /\ sent' = <<reply_text("canceled", <<>>, ReplyKeyboardRemove)>>
    /\ conversations' = [conversations EXCEPT ![u] = END]
    /\ Observe(u, t, "cancel", FALSE, TRUE)
    /\ UNCHANGED <<user_data, users, now>>

\* --------------------------------------------------------- button handlers
next_steps_replies == <<reply_text("have_account", <<>>, ReplyKeyboardMarkup(<<YesLabel, NoLabel>>))>>

next_steps(u, t) ==
    /\ add_handler(u, t) = "next_steps"
    /\ sent' = next_steps_replies
    /\ Observe(u, t, "next_steps", FALSE, TRUE)
    /\ UNCHANGED <<conversations, user_data, users, now>>

why_is_it_free_replies(u) ==
    <<reply_text("great_question", FirstNameOf(u), NoMarkup),
      reply_text("partner_broker", <<>>, NoMarkup),
      reply_text("so_you_get", <<>>, NoMarkup),
      reply_text("all_free", <<>>, ReplyKeyboardMarkup(<<ReadyLabel>>))>>

why_is_it_free(u, t) ==
    /\ add_handler(u, t) = "why_is_it_free"
    /\ sent' = why_is_it_free_replies(u)
    /\ Observe(u, t, "why_is_it_free", FALSE, TRUE)
    /\ UNCHANGED <<conversations, user_data, users, now>>

has_vantage_replies == <<reply_text("contact", <<>>, ReplyKeyboardRemove)>>

has_vantage_gated(u, t) ==
    /\ add_handler(u, t) = "has_vantage"
    /\ sent' = IF {r \in users : r.user_id = u} = {} THEN next_steps_replies ELSE has_vantage_replies
    /\ Observe(u, t, "has_vantage", FALSE, TRUE)
    /\ UNCHANGED <<conversations, user_data, users, now>>

has_vantage(u, t) ==
    /\ add_handler(u, t) = "has_vantage"
    /\ sent' = has_vantage_replies
    /\ Observe(u, t, "has_vantage", FALSE, TRUE)
    /\ UNCHANGED <<conversations, user_data, users, now>>

new_to_vantage_replies(u) ==
    <<reply_text("no_worries", FirstNameOf(u), NoMarkup),
      reply_text("steps", <<>>, NoMarkup),
      reply_text("click_done", <<>>, ReplyKeyboardMarkup(<<DoneLabel>>))>>

new_to_vantage(u, t) ==
    /\ add_handler(u, t) = "new_to_vantage"
    /\ sent' = new_to_vantage_replies(u)
    /\ Observe(u, t, "new_to_vantage", FALSE, TRUE)
    /\ UNCHANGED <<conversations, user_data, users, now>>

im_ready_replies_own == <<reply_text("have_account", <<>>, ReplyKeyboardMarkup(<<YesLabel, NoLabel, DoneLabel>>))>>

im_ready_replies_loops == <<reply_text("have_account", <<>>, ReplyKeyboardMarkup(<<ReadyLabel>>))>>

\* await next_steps(update, context)
im_ready_replies == next_steps_replies

im_ready(u, t) ==
    /\ add_handler(u, t) = "im_ready"
    /\ sent' = im_ready_replies
    /\ Observe(u, t, "im_ready", FALSE, TRUE)
    /\ UNCHANGED <<conversations, user_data, users, now>>

vantage_done_replies == <<reply_text("community_link", <<>>, ReplyKeyboardRemove)>>

vantage_done(u, t) ==
    /\ add_handler(u, t) = "vantage_done"
    /\ sent' = vantage_done_replies
    /\ Observe(u, t, "vantage_done", FALSE, TRUE)
    /\ UNCHANGED <<conversations, user_data, users, now>>

unknown(u, t) ==
    /\ add_handler(u, t) = "unknown"
    /\ sent' = <<reply_text("not_understood", <<>>, NoMarkup)>>
    /\ Observe(u, t, "unknown", FALSE, TRUE)
    /\ UNCHANGED <<conversations, user_data, users, now>>

\* no handler of the application accepts the update: nothing runs
Unhandled(u, t) ==
    /\ add_handler(u, t) = NoHandler
    /\ sent' = <<>>
    /\ Observe(u, t, NoHandler, FALSE, TRUE)
    /\ UNCHANGED <<conversations, user_data, users, now>>

\* ------------------------------------------------------------ the program
\* main on a machine without users.db: init_db creates the empty table; the
\* application starts with no conversation, empty user_data, no update
\* received (inbox) and no handler coroutine suspended (tasks)
Init ==
    /\ conversations = [u \in UserIds |-> END]
    /\ user_data = [u \in UserIds |-> EmptyDict]
    /\ users = init_db({})
    /\ now = 0
    /\ sent = <<>>
    /\ last = Update(0, <<>>, NoHandler, FALSE, TRUE)
    /\ flow = [u \in UserIds |-> <<>>]
    /\ inbox = <<>>
    /\ tasks = <<>>

\* two users going through the conversation, one update handled at a time
Next ==
    /\ UNCHANGED <<inbox, tasks>>
    /\ \E u \in UserIds : \E t \in Texts :
        \/ start(u, t)
        \/ name_handler(u, t)
        \/ \E ok \in BOOLEAN : email_handler(u, t, ok)
        \/ cancel(u, t)
        \/ unknown(u, t)
        \/ Unhandled(u, t)

Spec == Init /\ [][Next]_vars

\* one user, every handler main registers
MenuNext ==
    /\ UNCHANGED <<inbox, tasks>>
    /\ \E u \in MenuUsers : \E t \in MenuTexts :
        \/ start(u, t)
        \/ name_handler(u, t)
        \/ \E ok \in BOOLEAN : email_handler(u, t, ok)
        \/ cancel(u, t)
        \/ next_steps(u, t)
        \/ why_is_it_free(u, t)
        \/ has_vantage(u, t)
        \/ new_to_vantage(u, t)
        \/ im_ready(u, t)
        \/ vantage_done(u, t)
        \/ unknown(u, t)
        \/ Unhandled(u, t)

MenuSpec == Init /\ [][MenuNext]_vars

\* ---------------------------------------------------------------- restart
\* the process is stopped and main runs again: init_db finds the table,
\* the new application has no conversations and no user_data (neither is
\* persisted), and whatever was received or running is gone
main ==
    /\ users' = init_db(users)
    /\ conversations' = [u \in UserIds |-> END]
    /\ user_data' = [u \in UserIds |-> EmptyDict]
    /\ sent' = <<>>
    /\ last' = Update(0, <<>>, "main", FALSE, TRUE)
    /\ flow' = [u \in UserIds |-> <<>>]
    /\ inbox' = <<>>
    /\ tasks' = <<>>
    /\ UNCHANGED now

RestartNext == Next \/ main

RestartSpec == Init /\ [][RestartNext]_vars

\* ------------------------------------------------------ concurrent updates
\* ApplicationBuilder().concurrent_updates(True): every update is processed
\* in a task of its own. A task runs check_update and the handler up to the
\* handler's first await (reply_text) without interruption; while it is
\* suspended there other updates, of the same user too, are dispatched. The
\* ConversationHandler stores the state a handler returns only when the
\* handler has returned.
ConcUsers == {1}
ConcTexts == {StartCmd, CancelCmd, PaddedName, PaddedEmail}

\* a suspended handler: its remaining replies and, for a handler of the
\* conversation, the state it will return
Task(u, h, replies, conv, state) == [user |-> u, handler |-> h, replies |-> replies, conv |-> conv, state |-> state]

Dispatched(u, t, h, raised, ok) ==
    /\ last' = Update(u, t, h, raised, ok)
    /\ sent' = <<>>
    /\ UNCHANGED <<conversations, flow, inbox>>

begin_start(u, t) ==
    /\ Len(tasks) < MaxInFlight
    /\ add_handler(u, t) = "start"
    /\ tasks' = Append(tasks, Task(u, "start", <<reply_text("welcome", <<>>, NoMarkup)>>, TRUE, NAME))
    /\ Dispatched(u, t, "start", FALSE, TRUE)
    /\ UNCHANGED <<user_data, users, now>>

begin_name_handler(u, t) ==
    /\ Len(tasks) < MaxInFlight
    /\ add_handler(u, t) = "name_handler"
    /\ LET full_name == strip(t) IN
        /\ user_data' = [user_data EXCEPT ![u] = DictSet(@, "full_name", full_name)]
        /\ tasks' = Append(tasks, Task(u, "name_handler",
                                        <<reply_text("ask_email", full_name, NoMarkup)>>, TRUE, EMAIL))
    /\ Dispatched(u, t, "name_handler", FALSE, TRUE)
    /\ UNCHANGED <<users, now>>

begin_email_handler(u, t, ok) ==
    /\ Len(tasks) < MaxInFlight
    /\ add_handler(u, t) = "email_handler"
    /\ LET email == strip(t)
           full_name == DictGet(user_data[u], "full_name", <<>>)
           first_name == IF full_name # <<>> THEN FirstWord(full_name) ELSE <<>>
       IN IF ~is_valid_email(email)
          THEN /\ tasks' = Append(tasks, Task(u, "email_handler",
                                               <<reply_text("invalid_email", <<>>, NoMarkup)>>, TRUE, EMAIL))
               /\ Dispatched(u, t, "email_handler", FALSE, ok)
               /\ UNCHANGED <<user_data, users, now>>
          ELSE IF ~ok
          THEN /\ Dispatched(u, t, "email_handler", TRUE, ok)
               /\ UNCHANGED <<user_data, users, now, tasks>>
          ELSE /\ save_user(u, Username(u), full_name, email)
               /\ user_data' = [user_data EXCEPT ![u] = EmptyDict]
               /\ tasks' = Append(tasks, Task(u, "email_handler",
                                               email_accepted_replies(first_name), TRUE, END))
               /\ Dispatched(u, t, "email_handler", FALSE, ok)

begin_cancel(u, t) ==
    /\ Len(tasks) < MaxInFlight
    /\ add_handler(u, t) = "cancel"
    /\ tasks' = Append(tasks, Task(u, "cancel",
                                    <<reply_text("canceled", <<>>, ReplyKeyboardRemove)>>, TRUE, END))
    /\ Dispatched(u, t, "cancel", FALSE, TRUE)
    /\ UNCHANGED <<user_data, users, now>>

begin_unknown(u, t) ==
    /\ Len(tasks) < MaxInFlight
    /\ add_handler(u, t) = "unknown"
    /\ tasks' = Append(tasks, Task(u, "unknown",
                                    <<reply_text("not_understood", <<>>, NoMarkup)>>, FALSE, END))
    /\ Dispatched(u, t, "unknown", FALSE, TRUE)
    /\ UNCHANGED <<user_data, users, now>>

\* the i-th suspended handler sends its replies and returns; the
\* ConversationHandler then stores the returned state for the user
task_returns(i) ==
    /\ i \in 1..Len(tasks)
    /\ sent' = tasks[i].replies
    /\ conversations' = IF tasks[i].conv
                         THEN [conversations EXCEPT ![tasks[i].user] = tasks[i].state]
                         ELSE conversations
    /\ tasks' = SubSeq(tasks, 1, i - 1) \o SubSeq(tasks, i + 1, Len(tasks))
    /\ UNCHANGED <<user_data, users, now, last, flow, inbox>>

ConcNext ==
    \/ \E u \in ConcUsers : \E t \in ConcTexts :
        \/ begin_start(u, t)
        \/ begin_name_handler(u, t)
        \/ \E ok \in BOOLEAN : begin_email_handler(u, t, ok)
        \/ begin_cancel(u, t)
        \/ begin_unknown(u, t)
        \/ Unhandled(u, t) /\ UNCHANGED <<inbox, tasks>>
    \/ \E i \in 1..MaxInFlight : task_returns(i)

ConcSpec == Init /\ [][ConcNext]_vars

\* ------------------------------------------------------- message handling
\* run_polling: updates are fetched from Telegram into a queue and every
\* queued update is handed to the handlers, in the order received. Here the
\* handlers run one update at a time.
LiveUsers == {1}
LiveTexts == {StartCmd, PaddedName, PaddedEmail, BadEmail}

Message(u, t, ok) == [user |-> u, text |-> t, ok |-> ok]

\* a message that email_handler, if it gets it, stores
CouldSave(m) == TextNotCommand(m.text) /\ is_valid_email(strip(m.text)) /\ m.ok

Saving(queue) == Cardinality({i \in 1..Len(queue) : CouldSave(queue[i])})

\* a user sends a message; ok is whether the store can be written when the
\* message is handled (it matters to a valid email only). The clock bound
\* is applied here, so that a received message can always be handled.
receive(u, t, ok) ==
    /\ Len(inbox) < MaxInbox
    /\ ok \/ (TextNotCommand(t) /\ is_valid_email(strip(t)))
    /\ inbox' = Append(inbox, Message(u, t, ok))
    /\ now + Saving(inbox') <= MaxClock
    /\ UNCHANGED <<conversations, user_data, users, now, sent, last, flow, tasks>>

\* the oldest queued update is dispatched and its handler runs to its end
\* (of LiveTexts none is routed to cancel or to a menu handler)
deliver ==
    /\ inbox # <<>>
    /\ inbox' = Tail(inbox)
    /\ UNCHANGED tasks
    /\ LET m == Head(inbox) IN
        \/ start(m.user, m.text)
        \/ name_handler(m.user, m.text)
        \/ email_handler(m.user, m.text, m.ok)
        \/ unknown(m.user, m.text)
        \/ Unhandled(m.user, m.text)

LiveNext ==
    \/ \E u \in LiveUsers : \E t \in LiveTexts : \E ok \in BOOLEAN : receive(u, t, ok)
    \/ deliver

\* every received update is handled eventually
LiveSpec == Init /\ [][LiveNext]_vars /\ WF_vars(deliver)

\* ------------------------------------------------------------- properties
\* the rows of the users table with a given user_id
Rows(u) == {r \in users : r.user_id = u}

\* C1: every record of the users table has an email that is_valid_email
\* accepts.
EveryStoredEmailIsValid == \A r \in users : is_valid_email(r.email)

EveryStoredEmailIsValid_Witness ==
    /\ last.handler = "email_handler"
    /\ \E r \in users : r.user_id = last.user /\ r.email = strip(last.text) /\ r.created_at = now

OneRecordPerUserReplaced ==
    [][ /\ \A u \in UserIds : Cardinality({r \in users' : r.user_id = u}) <= 1
        /\ \A u \in UserIds :
            (last'.user = u /\ last'.handler = "email_handler" /\ conversations[u] = EMAIL
                /\ conversations'[u] = END) =>
                /\ {r \in users' : r.user_id = u} =
                       {[user_id |-> u, tg_username |-> Username(u),
                         full_name |-> DictGet(user_data[u], "full_name", <<>>),
                         email |-> strip(last'.text), created_at |-> now']}
                /\ {r \in users' : r.user_id # u} = {r \in users : r.user_id # u} ]_vars

\* a second completion by the same user: two saves so far, one row left
OneRecordPerUserReplaced_Witness ==
    /\ now = 2
    /\ last.handler = "email_handler"
    /\ \E r \in users : users = {r} /\ r.created_at = 2 /\ r.user_id = last.user

\* C4: a non-command text that fails the validator, sent in state EMAIL,
\* leaves the state EMAIL, the staged full_name and the users table as
\* they were, and the only reply is the invalid-email prompt.
InvalidEmailKeepsSession ==
    [][ \A u \in UserIds :
            (conversations[u] = EMAIL /\ last'.user = u /\ TextNotCommand(last'.text)
                /\ ~is_valid_email(last'.text)) =>
                /\ conversations'[u] = EMAIL
                /\ user_data'[u] = user_data[u]
                /\ users' = users
                /\ sent' = <<reply_text("invalid_email", <<>>, NoMarkup)>> ]_vars

InvalidEmailKeepsSession_Witness ==
    /\ last.handler = "email_handler"
    /\ last.text = BadEmail
    /\ conversations[last.user] = EMAIL
    /\ "full_name" \in DOMAIN user_data[last.user]
    /\ sent = <<reply_text("invalid_email", <<>>, NoMarkup)>>

\* C5: the cancel command sent in state NAME or EMAIL ends the conversation
\* and leaves the users table unchanged.
CancelEndsWithoutWriting ==
    [][ \A u \in UserIds :
            (conversations[u] \in {NAME, EMAIL} /\ last'.user = u
                /\ CommandHandler(CancelWord, last'.text)) =>
                /\ conversations'[u] = END
                /\ users' = users ]_vars

CancelEndsWithoutWriting_Witness ==
    /\ last.handler = "cancel"
    /\ conversations[last.user] = END
    /\ "full_name" \in DOMAIN user_data[last.user]
    /\ Rows(last.user) = {}

\* C6: cancelling destroys the staged fields, so a user with no
\* conversation never has a staged full_name in user_data.
InactiveHoldsNoStagedFields ==
    \A u \in UserIds : conversations[u] = END => user_data[u] = EmptyDict

\* C7: the start command sent in state NAME or EMAIL restarts the
\* conversation: the welcome prompt is the reply, the state becomes NAME,
\* the staged full_name is gone and the users table is unchanged.
StartRestartsConversation ==
    [][ \A u \in UserIds :
            (conversations[u] \in {NAME, EMAIL} /\ last'.user = u
                /\ CommandHandler(StartWord, last'.text)) =>
                /\ sent' = <<reply_text("welcome", <<>>, NoMarkup)>>
                /\ conversations'[u] = NAME
                /\ "full_name" \notin DOMAIN user_data'[u]
                /\ users' = users ]_vars

\* C8: when the store cannot be written while a valid email is handled in
\* state EMAIL, the state, the staged full_name and the users table stay as
\* they were and nothing is sent; the same text sent again by that user
\* with the store writable ends the conversation with the one record that
\* carries the staged full_name and the stripped email.
StoreFailureKeepsSession ==
    [][ \A u \in UserIds :
        /\ (conversations[u] = EMAIL /\ last'.user = u /\ TextNotCommand(last'.text)
                /\ is_valid_email(last'.text) /\ ~last'.ok) =>
                /\ conversations'[u] = EMAIL
                /\ user_data'[u] = user_data[u]
                /\ "full_name" \in DOMAIN user_data'[u]
                /\ users' = users
                /\ sent' = <<>>
        /\ (conversations[u] = EMAIL /\ last.user = u /\ TextNotCommand(last.text)
                /\ is_valid_email(last.text) /\ ~last.ok
                /\ last'.user = u /\ last'.text = last.text /\ last'.ok) =>
                /\ conversations'[u] = END
                /\ {r \in users' : r.user_id = u} =
                       {[user_id |-> u, tg_username |-> Username(u),
                         full_name |-> user_data[u]["full_name"],
                         email |-> strip(last.text), created_at |-> now']}
                /\ Len(sent') = 4 ]_vars

StoreFailureKeepsSession_Witness ==
    /\ last.handler = "email_handler"
    /\ last.raised
    /\ is_valid_email(last.text)
    /\ conversations[last.user] = EMAIL
    /\ user_data[last.user]["full_name"] = <<"J", "o", " ", "D">>
    /\ Rows(last.user) = {}
    /\ sent = <<>>

\* C9: for a user with no conversation, every text that is none of the
\* menu labels and not the start command gets the "didn't understand"
\* reply and changes neither the conversation nor the users table.
UnmatchedTextGetsFallback ==
    [][ \A u \in UserIds :
            (conversations[u] = END /\ last'.user = u /\ last'.text \notin Labels
                /\ ~CommandHandler(StartWord, last'.text)) =>
                /\ sent' = <<reply_text("not_understood", <<>>, NoMarkup)>>
                /\ conversations' = conversations
                /\ users' = users ]_vars

\* C10: for a user with no conversation, "I'm ready!" and "Next Steps" get
\* the same reply, the account question with the menu of the two account
\* answers, and both leave conversation, user_data and users unchanged.
ReadyIsNextSteps ==
    [][ \A u \in UserIds :
            (conversations[u] = END /\ last'.user = u
                /\ last'.text \in {ReadyLabel, NextStepsLabel}) =>
                /\ sent' = <<reply_text("have_account", <<>>, ReplyKeyboardMarkup(<<YesLabel, NoLabel>>))>>
                /\ conversations' = conversations
                /\ user_data' = user_data
                /\ users' = users
                /\ now' = now ]_vars

ReadyIsNextSteps_Witness ==
    /\ last.handler = "im_ready"
    /\ last.text = ReadyLabel
    /\ conversations[last.user] = END
    /\ sent = next_steps_replies

\* C11: the users table starts empty and the rows of a user change only in
\* a step in which that user, in state EMAIL, sends a non-command text that
\* the validator accepts; start, name_handler, cancel and every other
\* handler write nothing.
StoreWrittenOnlyByValidEmail ==
    /\ users = {}
    /\ [][ \A u \in UserIds :
            {r \in users' : r.user_id = u} # {r \in users : r.user_id = u} =>
                /\ conversations[u] = EMAIL
                /\ last'.user = u
                /\ TextNotCommand(last'.text)
                /\ is_valid_email(last'.text) ]_vars

\* one user has completed, the other has staged a name and has no row
StoreWrittenOnlyByValidEmail_Witness ==
    \E u \in UserIds : \E v \in UserIds :
        /\ u # v
        /\ conversations[u] = EMAIL
        /\ "full_name" \in DOMAIN user_data[u]
        /\ Rows(u) = {}
        /\ Rows(v) # {}

MenuHandlers == {"next_steps", "why_is_it_free", "has_vantage", "new_to_vantage", "im_ready", "vantage_done"}

\* C12 as stated: a menu handler runs for a user only when that user has
\* completed onboarding, that is, has a row in the users table.
MenuOnlyAfterOnboarding ==
    [][ \A u \in UserIds :
            (last'.user = u /\ last'.handler \in MenuHandlers) => Rows(u) # {} ]_vars

\* C12 amended: a menu handler runs for a user only while that user has no
\* conversation (state END before and after), whether or not the user ever
\* completed onboarding.
MenuOnlyWithoutConversation ==
    [][ \A u \in UserIds :
            (last'.user = u /\ last'.handler \in MenuHandlers) =>
                /\ conversations[u] = END
                /\ conversations'[u] = END ]_vars

MenuOnlyWithoutConversation_Witness ==
    /\ last.handler = "vantage_done"
    /\ conversations[last.user] = END
    /\ Rows(last.user) = {}
    /\ now = 0

\* C13: in state NAME or EMAIL every non-command text of the user goes to
\* the conversation's handler, a menu label included: in NAME it is staged
\* (stripped) as full_name and the state becomes EMAIL, in EMAIL a label is
\* an invalid email; no menu handler runs.
ConversationConsumesText ==
    [][ \A u \in UserIds :
        /\ (conversations[u] = NAME /\ last'.user = u /\ TextNotCommand(last'.text)) =>
                /\ last'.handler = "name_handler"
                /\ user_data'[u]["full_name"] = strip(last'.text)
                /\ conversations'[u] = EMAIL
        /\ (conversations[u] = EMAIL /\ last'.user = u /\ TextNotCommand(last'.text)) =>
                /\ last'.handler = "email_handler"
                /\ last'.text \in Labels =>
                    /\ conversations'[u] = EMAIL
                    /\ sent' = <<reply_text("invalid_email", <<>>, NoMarkup)>> ]_vars

ConversationConsumesText_Witness ==
    /\ last.text = NextStepsLabel
    /\ last.handler = "name_handler"
    /\ conversations[last.user] = EMAIL
    /\ user_data[last.user]["full_name"] = NextStepsLabel

\* the handler and the menu each label stands for
LabelAction(l) ==
    CASE l = NextStepsLabel -> "next_steps"
      [] l = WhyFreeLabel -> "why_is_it_free"
      [] l = YesLabel -> "has_vantage"
      [] l = NoLabel -> "new_to_vantage"
      [] l = ReadyLabel -> "im_ready"
      [] l = DoneLabel -> "vantage_done"

LabelMenu(l) ==
    CASE l = NextStepsLabel -> ReplyKeyboardMarkup(<<YesLabel, NoLabel>>)
      [] l = WhyFreeLabel -> ReplyKeyboardMarkup(<<ReadyLabel>>)
      [] l = YesLabel -> ReplyKeyboardRemove
      [] l = NoLabel -> ReplyKeyboardMarkup(<<DoneLabel>>)
      [] l = ReadyLabel -> ReplyKeyboardMarkup(<<YesLabel, NoLabel>>)
      [] l = DoneLabel -> ReplyKeyboardRemove

\* C14: a menu handler or the fallback leaves conversations, user_data and
\* the users table unchanged, and for a user with no conversation the
\* handler that runs and the menu it presents are fixed by the label alone.
DispatcherIsStateless ==
    [][ \A u \in UserIds :
        /\ (last'.user = u /\ last'.handler \in MenuHandlers \cup {"unknown", NoHandler}) =>
                /\ conversations' = conversations
                /\ user_data' = user_data
                /\ users' = users
        /\ (conversations[u] = END /\ last'.user = u /\ last'.text \in Labels) =>
                /\ last'.handler = LabelAction(last'.text)
                /\ sent'[Len(sent')].reply_markup = LabelMenu(last'.text) ]_vars

\* "Yes, I do" pressed by a user who never onboarded and by one who has,
\* after a cancelled conversation left a staged name behind
DispatcherIsStateless_Witness ==
    /\ last.handler = "has_vantage"
    /\ sent = has_vantage_replies
    /\ "full_name" \in DOMAIN user_data[last.user]
    /\ Rows(last.user) # {}

\* C16: a step that handles a message of one user leaves every other
\* user's conversation state, user_data and rows of the users table
\* unchanged.
UsersAreIsolated ==
    [][ \A a \in UserIds : \A b \in UserIds \ {a} :
            last'.user = a =>
                /\ conversations'[b] = conversations[b]
                /\ user_data'[b] = user_data[b]
                /\ {r \in users' : r.user_id = b} = {r \in users : r.user_id = b} ]_vars

\* user 2 saves while user 1 has a row and a staged name in state EMAIL
UsersAreIsolated_Witness ==
    /\ last.user = 2
    /\ last.handler = "email_handler"
    /\ Rows(2) # {}
    /\ Rows(1) # {}
    /\ conversations[1] = EMAIL
    /\ "full_name" \in DOMAIN user_data[1]

\* C18: a restart leaves every row of the users table as it was and
\* leaves every user with no conversation and empty user_data, so a
\* conversation that was in NAME or EMAIL is gone and nothing of it was
\* written.
RestartKeepsStoreDropsSessions ==
    [][ last'.handler = "main" =>
            /\ users' = users
            /\ \A u \in UserIds : conversations'[u] = END /\ user_data'[u] = EmptyDict ]_vars

\* restarted with a row in the table, and a later restart-free start works
RestartKeepsStoreDropsSessions_Witness ==
    /\ last.handler = "main"
    /\ users # {}
    /\ \A u \in UserIds : conversations[u] = END /\ user_data[u] = EmptyDict

Filters == {NextStepsFilter, WhyFreeFilter, YesFilter, NoFilter, ReadyFilter, DoneFilter}

\* C19: every label of every keyboard a handler presents is matched by
\* exactly one of the Regex filters, and sent by a user with no
\* conversation it is taken by a menu handler, not by unknown or by none.
OfferedLabelsAreTriggers ==
    \A i \in 1..Len(sent) :
        LET keyboard == sent[i].reply_markup.keyboard IN
        \A j \in 1..Len(keyboard) :
            /\ Cardinality({f \in Filters : Regex(f, keyboard[j])}) = 1
            /\ \A u \in UserIds :
                conversations[u] = END => add_handler(u, keyboard[j]) \in MenuHandlers

OfferedLabelsAreTriggers_Witness ==
    /\ last.handler = "why_is_it_free"
    /\ Len(sent) = 4
    /\ sent[4].reply_markup = ReplyKeyboardMarkup(<<ReadyLabel>>)

\* the replies of a menu handler to user u
RepliesOf(h, u) ==
    CASE h = "next_steps" -> next_steps_replies
      [] h = "why_is_it_free" -> why_is_it_free_replies(u)
      [] h = "has_vantage" -> has_vantage_replies
      [] h = "new_to_vantage" -> new_to_vantage_replies(u)
      [] h = "im_ready" -> im_ready_replies
      [] h = "vantage_done" -> vantage_done_replies
      [] OTHER -> <<>>

\* every way of pressing labels of the menu last presented, starting from
\* markup, removes the keyboard within n presses and shows no menu twice
RECURSIVE AllPathsEnd(_, _, _, _)
AllPathsEnd(u, markup, seen, n) ==
    IF markup.kind = "remove" THEN TRUE
    ELSE IF markup.kind = "none" THEN FALSE
    ELSE /\ markup \notin seen
         /\ n > 0
         /\ \A j \in 1..Len(markup.keyboard) :
                LET replies == RepliesOf(add_handler(u, markup.keyboard[j]), u) IN
                /\ replies # <<>>
                /\ AllPathsEnd(u, replies[Len(replies)].reply_markup, seen \cup {markup}, n - 1)

\* C20: from the menu email_handler presents on completion, pressing only
\* labels of the menu presented last reaches a handler that removes the
\* keyboard within four presses, and no menu is presented twice on the way.
MenuTreeEndsWithinFour ==
    \A u \in UserIds :
        (conversations[u] = END /\ last.user = u /\ last.handler = "email_handler"
            /\ sent # <<>>) =>
            /\ sent[Len(sent)].reply_markup = ReplyKeyboardMarkup(<<NextStepsLabel, WhyFreeLabel>>)
            /\ AllPathsEnd(u, sent[Len(sent)].reply_markup, {}, 4)

MenuTreeEndsWithinFour_Witness ==
    /\ last.handler = "email_handler"
    /\ conversations[last.user] = END
    /\ Len(sent) = 4
    /\ sent[4].reply_markup = ReplyKeyboardMarkup(<<NextStepsLabel, WhyFreeLabel>>)
    /\ ~AllPathsEnd(last.user, sent[4].reply_markup, {}, 3)

\* C15: with updates processed concurrently, every row written for a user
\* carries the full_name that user has staged: when email_handler saves,
\* user_data holds a full_name and the row's full_name is that name, never
\* the empty default.
SavedNameIsStagedName ==
    [][ \A u \in UserIds :
            {r \in users' : r.user_id = u} # {r \in users : r.user_id = u} =>
                /\ "full_name" \in DOMAIN user_data[u]
                /\ \A r \in {x \in users' : x.user_id = u} :
                    r.full_name = user_data[u]["full_name"] /\ r.full_name # <<>> ]_vars

\* a non-command text the validator rejects
InvalidEmail(t) == TextNotCommand(t) /\ ~is_valid_email(strip(t))

\* user u is in state EMAIL and the queue holds a valid email of u, to be
\* handled while the store can be written, with nothing but invalid emails
\* of u before it
RetryPending(u) ==
    /\ conversations[u] = EMAIL
    /\ \E i \in 1..Len(inbox) :
        /\ inbox[i].user = u
        /\ CouldSave(inbox[i])
        /\ \A j \in 1..(i - 1) : inbox[j].user = u => InvalidEmail(inbox[j].text)

Completed(u) == conversations[u] = END /\ Rows(u) # {}

\* C17: handling an invalid email in state EMAIL leaves the state EMAIL, the
\* staged name and the users table as they were, however often it happens;
\* handling a valid email in state EMAIL while the store can be written
\* ends the conversation and leaves the user's record with the staged name
\* and that email; and when such an email is queued behind any number of
\* invalid ones, the conversation eventually ends with a record stored
\* (every received update being handled eventually).
RetryIsUnlimited ==
    /\ [][ (inbox # <<>> /\ inbox' = Tail(inbox) /\ conversations[Head(inbox).user] = EMAIL) =>
            LET m == Head(inbox) IN
                /\ InvalidEmail(m.text) =>
                    /\ conversations'[m.user] = EMAIL
                    /\ user_data' = user_data
                    /\ users' = users
                /\ CouldSave(m) =>
                    /\ conversations'[m.user] = END
                    /\ \E r \in users' :
                        /\ {x \in users' : x.user_id = m.user} = {r}
                        /\ r.full_name = DictGet(user_data[m.user], "full_name", <<>>)
                        /\ r.full_name # <<>>
                        /\ r.email = strip(m.text) ]_vars
    /\ \A u \in LiveUsers : RetryPending(u) ~> Completed(u)

\* an invalid email has just been rejected and a valid one waits
RetryIsUnlimited_Witness ==
    /\ last.handler = "email_handler"
    /\ InvalidEmail(last.text)
    /\ DictGet(user_data[last.user], "full_name", <<>>) = strip(PaddedName)
    /\ RetryPending(last.user)

====
